---- MODULE Spec2Model ----
(***************************************************************************)
(* Model of src/root.py: the CSV-backed in-memory cache of companies and   *)
(* recruitment postings, its loader and the HTTP handlers that read it.    *)
(*                                                                         *)
(* Text is a sequence of chunks: the chunk " " is whitespace, every other  *)
(* chunk is an indivisible run of non-whitespace characters.  A Python     *)
(* dict is a sequence of <<key, value>> pairs with distinct keys, in       *)
(* insertion order.  None is the sentinel NoneV.                           *)
(***************************************************************************)
EXTENDS Integers, Sequences, FiniteSets, TLC

\* ------------------------------------------------------------------ bounds
MaxRows == 2
MaxChanges == 1
MaxDelay == 2
MaxLoads == 2
NumTasks == 2

\* ------------------------------------------------------------ Python values
NoneV == <<"<None>">>
RestList == <<"<list>">>
WS == " "
EmptyStr == <<>>

K_corporate_number == <<"corporate_number">>
K_media_internal_id == <<"media_internal_id">>
K_quality == <<"quality">>
K_updated_at == <<"updated_at">>
K_name == <<"name">>

\* str.strip(): drop the whitespace at both ends, keep what is inside
RECURSIVE LStrip(_)
LStrip(s) ==
    IF s = <<>> THEN <<>>
    ELSE IF Head(s) = WS THEN LStrip(Tail(s)) ELSE s

RECURSIVE RStrip(_)
RStrip(s) ==
    IF s = <<>> THEN <<>>
    ELSE IF s[Len(s)] = WS THEN RStrip(SubSeq(s, 1, Len(s) - 1)) ELSE s

StripOnce(s) ==
    LET l == IF s # <<>> /\ Head(s) = WS THEN Tail(s) ELSE s
    IN  IF l # <<>> /\ l[Len(l)] = WS THEN SubSeq(l, 1, Len(l) - 1) ELSE l

Strip(s) == RStrip(LStrip(s))

\* truth value of an Optional[str]
Truthy(v) == v # NoneV /\ v # EmptyStr

\* ------------------------------------------------------------- Python dict
DictKeys(d) == {d[i][1] : i \in 1..Len(d)}

DictHas(d, k) == \E i \in 1..Len(d) : d[i][1] = k

\* d.get(k): the value under k, None when k is absent
DictGet(d, k) ==
    IF DictHas(d, k)
    THEN d[CHOOSE i \in 1..Len(d) : d[i][1] = k][2]
    ELSE NoneV

\* d[k] = v: overwrite in place, else insert at the end
DictSet(d, k, v) ==
    IF DictHas(d, k)
    THEN [i \in 1..Len(d) |-> IF d[i][1] = k THEN <<k, v>> ELSE d[i]]
    ELSE Append(d, <<k, v>>)

\* d.pop(k, None)
DictPop(d, k) == SelectSeq(d, LAMBDA p : p[1] # k)

\* a dict keyed by str whose iteration order is never used: a function
MapGet(m, k) == IF k \in DOMAIN m THEN m[k] ELSE NoneV

\* (setdefault: an entry that is there is kept)
MapPutIfAbsent(m, k, v) ==
    [x \in (DOMAIN m) \cup {k} |-> IF x \in DOMAIN m THEN m[x] ELSE v]

MapPut(m, k, v) == [x \in (DOMAIN m) \cup {k} |-> IF x = k THEN v ELSE m[x]]

EmptyMap == <<>>

\* ------------------------------------------------------------ _normalize_row
\* (the same without the conversion of "" to None)
NormalizeValueKeepEmpty(v) == IF v = NoneV THEN NoneV ELSE Strip(v)

NormalizeValue(v) ==
    IF v = NoneV THEN NoneV
    ELSE LET vv == Strip(v) IN IF vv = EmptyStr THEN NoneV ELSE vv

RECURSIVE NormalizeLoop(_, _, _)
NormalizeLoop(row, i, out) ==
    IF i > Len(row) THEN out
    ELSE LET k == row[i][1]
             v == row[i][2]
         IN  IF k = NoneV
             THEN NormalizeLoop(row, i + 1, out)
             ELSE NormalizeLoop(row, i + 1,
                                DictSet(out, Strip(k), NormalizeValue(v)))

_normalize_row(row) == NormalizeLoop(row, 1, <<>>)

\* --------------------------------------------------------- csv.DictReader
\* one data line under a header: missing cells are None (restval), surplus
\* cells are gathered under the key None (restkey).  The reader passes over
\* a line that has no cell at all; the lines of a file are the others.
RECURSIVE ZipLoop(_, _, _, _)
ZipLoop(header, cells, i, d) ==
    IF i > Len(header) THEN d
    ELSE ZipLoop(header, cells, i + 1,
                 DictSet(d, header[i],
                         IF i <= Len(cells) THEN cells[i] ELSE NoneV))

DictReaderRow(header, cells) ==
    LET d == ZipLoop(header, cells, 1, <<>>)
    IN  IF Len(cells) > Len(header) THEN DictSet(d, NoneV, RestList) ELSE d

DictReader(header, lines) ==
    [i \in 1..Len(lines) |-> DictReaderRow(header, lines[i])]

\* ------------------------------------------------------- the source files
\* The header line of each file and the data lines a file is drawn from.
\* Header names and cells carry surrounding whitespace, lines may be short
\* or long, keys may repeat and may be blank.
CompanyHeader ==
    << <<WS, "corporate_number">>, <<"name", WS>>, K_quality, K_updated_at >>

RecruitHeader ==
    << <<"media_internal_id", WS>>, <<WS, "corporate_number">>, K_quality >>

CompanyLines ==
    { << <<"c1">>, <<"Acme">>, <<"high">>, <<"2024">> >>,
      << <<WS, WS, "c1", WS>>, <<WS>> >>,
      << <<WS>>, <<"Beta", WS, "Ltd">>, <<"low">>, <<"2023">>, <<"surplus">> >> }

RecruitLines ==
    { << <<"r1">>, <<"c1", WS>>, <<"high">> >>,
      << <<WS, "r1">>, <<WS>> >>,
      << <<>>, <<"c1">>, <<"low">>, <<"surplus">> >> }

Files == {"company", "recruit"}

Header(f) == IF f = "company" THEN CompanyHeader ELSE RecruitHeader

Lines(f) == IF f = "company" THEN CompanyLines ELSE RecruitLines

SeqsUpTo(S, n) == UNION {[1..k -> S] : k \in 0..n}

Absent == [exists |-> FALSE, mtime |-> 0, ok |-> TRUE, lines |-> <<>>]

\* what a file can hold when the service starts, written at time m:
\* decodable lines, or bytes that are not UTF-8 (ok = FALSE), on which the
\* reader raises
Written(f, m) ==
    {[exists |-> TRUE, mtime |-> m, ok |-> TRUE, lines |-> l] :
        l \in SeqsUpTo(Lines(f), MaxRows)}
    \cup {[exists |-> TRUE, mtime |-> m, ok |-> FALSE, lines |-> <<>>]}

\* what a refresh at time m makes of a file: its last line is gone, or the
\* bytes are not UTF-8
Rewritten(old, m) ==
    {[exists |-> TRUE, mtime |-> m, ok |-> TRUE,
      lines |-> SubSeq(old.lines, 1, Len(old.lines) - 1)],
     [exists |-> TRUE, mtime |-> m, ok |-> FALSE, lines |-> <<>>]}

\* f"{m:.0f}" of an mtime counted in half seconds: round to the nearest
\* second, ties to even
RoundSeconds(h) ==
    LET q == h \div 2
    IN  IF h % 2 = 0 THEN q ELSE IF q % 2 = 0 THEN q ELSE q + 1

\* _file_version(): the two rounded mtimes, 0 for a file that is absent
_file_version(files) ==
    LET c_m == IF files["company"].exists THEN files["company"].mtime ELSE 0
        r_m == IF files["recruit"].exists THEN files["recruit"].mtime ELSE 0
    IN  <<RoundSeconds(c_m), RoundSeconds(r_m)>>

\* ----------------------------------------- the two loops of the loader
\* lines 79-90: normalize, drop quality/updated_at, list every row, index
\* the rows that have a corporate_number
CompanyRecordKeepAll(row) == _normalize_row(row)

CompanyRecord(row) ==
    DictPop(DictPop(_normalize_row(row), K_quality), K_updated_at)

RECURSIVE CompanyLoop(_, _, _)
CompanyLoop(rows, i, acc) ==
    IF i > Len(rows) THEN acc
    ELSE LET d == CompanyRecord(rows[i])
             corp == DictGet(d, K_corporate_number)
         IN  CompanyLoop(rows, i + 1,
                [all |-> Append(acc.all, d),
                 cache |-> IF Truthy(corp) THEN MapPut(acc.cache, corp, d)
                           ELSE acc.cache])

\* (the same loop indexing every row, whatever its corporate_number)
RECURSIVE CompanyLoopIndexAll(_, _, _)
CompanyLoopIndexAll(rows, i, acc) ==
    IF i > Len(rows) THEN acc
    ELSE LET d == CompanyRecord(rows[i])
             corp == DictGet(d, K_corporate_number)
         IN  CompanyLoopIndexAll(rows, i + 1,
                [all |-> Append(acc.all, d),
                 cache |-> MapPut(acc.cache, corp, d)])

ParseCompaniesIndexAll(rows) ==
    CompanyLoopIndexAll(rows, 1, [all |-> <<>>, cache |-> EmptyMap])

\* (the same loop leaving out the rows without corporate_number)
RECURSIVE CompanyLoopSkipKeyless(_, _, _)
CompanyLoopSkipKeyless(rows, i, acc) ==
    IF i > Len(rows) THEN acc
    ELSE LET d == CompanyRecord(rows[i])
             corp == DictGet(d, K_corporate_number)
         IN  IF ~Truthy(corp)
             THEN CompanyLoopSkipKeyless(rows, i + 1, acc)
             ELSE CompanyLoopSkipKeyless(rows, i + 1,
                    [all |-> Append(acc.all, d),
                     cache |-> MapPut(acc.cache, corp, d)])

ParseCompaniesSkipKeyless(rows) ==
    CompanyLoopSkipKeyless(rows, 1, [all |-> <<>>, cache |-> EmptyMap])

ParseCompanies(rows) == CompanyLoop(rows, 1, [all |-> <<>>, cache |-> EmptyMap])

\* lines 95-101: normalize, skip the rows without media_internal_id, list
\* and index the others
RECURSIVE RecruitLoop(_, _, _)
RecruitLoop(rows, i, acc) ==
    IF i > Len(rows) THEN acc
    ELSE LET d == _normalize_row(rows[i])
             media_id == DictGet(d, K_media_internal_id)
         IN  IF ~Truthy(media_id)
             THEN RecruitLoop(rows, i + 1, acc)
             ELSE RecruitLoop(rows, i + 1,
                    [all |-> Append(acc.all, d),
                     cache |-> MapPut(acc.cache, media_id, d)])

RECURSIVE RecruitLoopKeepKeyless(_, _, _)
RecruitLoopKeepKeyless(rows, i, acc) ==
    IF i > Len(rows) THEN acc
    ELSE LET d == _normalize_row(rows[i])
             media_id == DictGet(d, K_media_internal_id)
         IN  RecruitLoopKeepKeyless(rows, i + 1,
                [all |-> Append(acc.all, d),
                 cache |-> IF Truthy(media_id)
                           THEN MapPut(acc.cache, media_id, d)
                           ELSE acc.cache])

ParseRecruitsKeepKeyless(rows) ==
    RecruitLoopKeepKeyless(rows, 1, [all |-> <<>>, cache |-> EmptyMap])

ParseRecruits(rows) == RecruitLoop(rows, 1, [all |-> <<>>, cache |-> EmptyMap])

\* ------------------------------------------------------------------ state
VARIABLES
    fs,                \* the two source files on disk
    now,               \* wall clock, in half seconds
    company_cache, recruit_cache, all_companies, all_recruits,
    _cache_loaded, _cache_loaded_at, _cache_version,
    running,           \* the handler the event loop is executing, 0 if none
    pc, req, loc, resp,   \* per handler: position, request, locals, response
    entry,             \* per handler: the cache as it was when it started
    hist               \* per global: the load that assigned it last

cacheVars == <<company_cache, recruit_cache, all_companies, all_recruits,
               _cache_loaded, _cache_loaded_at, _cache_version>>

taskVars == <<running, pc, req, loc, resp, entry>>

vars == <<fs, now, company_cache, recruit_cache, all_companies, all_recruits,
          _cache_loaded, _cache_loaded_at, _cache_version,
          running, pc, req, loc, resp, entry, hist>>

Tasks == 1..NumTasks

CacheState ==
    [company_cache |-> company_cache, recruit_cache |-> recruit_cache,
     all_companies |-> all_companies, all_recruits |-> all_recruits,
     loaded |-> _cache_loaded, loaded_at |-> _cache_loaded_at,
     version |-> _cache_version]

\* module level, lines 24-31
InitialCache ==
    [company_cache |-> EmptyMap, recruit_cache |-> EmptyMap,
     all_companies |-> <<>>, all_recruits |-> <<>>,
     loaded |-> FALSE, loaded_at |-> 0, version |-> <<>>]

NoReq == [op |-> "none", key |-> NoneV, force |-> FALSE]

NoLoc ==
    [version |-> <<>>, checked |-> FALSE, skipped |-> FALSE, id |-> 0,
     t0 |-> 0, c0 |-> 0,
     rows_c |-> <<>>, rows_r |-> <<>>, seen_c |-> 0, seen_r |-> 0,
     _company_cache |-> EmptyMap, _recruit_cache |-> EmptyMap,
     _all_companies |-> <<>>, _all_recruits |-> <<>>,
     recruitment |-> NoneV]

NoResp == [status |-> "none", body |-> NoneV]

NoHist ==
    [company_cache |-> 0, recruit_cache |-> 0, all_companies |-> 0,
     all_recruits |-> 0, version |-> 0, loads |-> 0, changes |-> 0,
     rows_c |-> <<>>, rows_r |-> <<>>, seen_c |-> 0, seen_r |-> 0]

\* the handlers and the keys they are asked for
QueryOps == {"get_company", "get_recruitment", "get_all_recruitments",
             "root", "check_data", "health_check"}

CompanyKeys == {<<"c1">>, <<"c9">>}

RecruitKeys == {<<"r1">>, <<"r9">>}

Requests ==
    {[op |-> "get_company", key |-> k, force |-> FALSE] : k \in CompanyKeys}
    \cup {[op |-> "get_recruitment", key |-> k, force |-> FALSE] : k \in RecruitKeys}
    \cup {[op |-> o, key |-> NoneV, force |-> FALSE] :
            o \in {"get_all_recruitments", "root", "check_data", "health_check"}}
    \cup {[op |-> "reload_cache", key |-> NoneV, force |-> TRUE]}
    \cup {[op |-> "load_cache_from_csv", key |-> NoneV, force |-> FALSE]}

Init ==
    /\ now = 4
    /\ fs \in [Files -> UNION {Written(f, now) : f \in Files} \cup {Absent}]
    /\ \A f \in Files : fs[f] \in Written(f, now) \cup {Absent}
    /\ company_cache = InitialCache.company_cache
    /\ recruit_cache = InitialCache.recruit_cache
    /\ all_companies = InitialCache.all_companies
    /\ all_recruits = InitialCache.all_recruits
    /\ _cache_loaded = InitialCache.loaded
    /\ _cache_loaded_at = InitialCache.loaded_at
    /\ _cache_version = InitialCache.version
    /\ running = 0
    /\ pc = [t \in Tasks |-> "idle"]
    /\ req = [t \in Tasks |-> NoReq]
    /\ loc = [t \in Tasks |-> NoLoc]
    /\ resp = [t \in Tasks |-> NoResp]
    /\ entry = [t \in Tasks |-> InitialCache]
    /\ hist = NoHist

\* ------------------------------------------------------------- scheduling
\* Every handler is an `async def` without an await: the event loop runs it
\* from its first line to its return before it takes up another request.
\* (the same loop if line 103 were followed by an await)
OnLoopAwaitInSwap(t) ==
    \/ running \in {0, t}
    \/ running # 0 /\ pc[running] \in {"L104", "L105", "L106", "L108",
                                         "L109", "L110"}

OnLoop(t) == running \in {0, t}

At(t, l) == pc[t] = l /\ OnLoop(t)

Goto(t, l) == pc' = [pc EXCEPT ![t] = l]

\* where a handler continues once load_cache_from_csv has returned
AfterLoad(op) ==
    CASE op = "get_company" -> "L121"
      [] op = "get_recruitment" -> "L130"
      [] op = "get_all_recruitments" -> "L143"
      [] op = "root" -> "L149"
      [] op = "check_data" -> "L155"
      [] op = "health_check" -> "L169"
      [] op = "reload_cache" -> "L184"
      [] OTHER -> "ret"

\* load_cache_from_csv returns None to its caller
LoadReturns(t) ==
    /\ Goto(t, AfterLoad(req[t].op))
    /\ resp' = IF req[t].op = "load_cache_from_csv"
               THEN [resp EXCEPT ![t] = [status |-> "return", body |-> NoneV]]
               ELSE resp

\* an exception leaves the handler: the caller of load_cache_from_csv sees it
\* raised, an HTTP client sees a 500 (lines 176-177, 190-191, or the
\* framework's answer to an unhandled exception)
Raise(t, err) ==
    /\ Goto(t, "ret")
    /\ resp' = [resp EXCEPT ![t] =
                 [status |-> IF req[t].op = "load_cache_from_csv"
                             THEN "raise" ELSE "500",
                  body |-> err]]

Respond(t, status, body) ==
    /\ Goto(t, "ret")
    /\ resp' = [resp EXCEPT ![t] = [status |-> status, body |-> body]]

\* a request arrives and the event loop starts its handler, in the first
\* free slot
Start(t, r) ==
    /\ At(t, "idle")
    /\ \A u \in 1..(t - 1) : pc[u] # "idle"
    /\ (r.op \in QueryOps /\ _cache_loaded) \/ hist.loads < MaxLoads
    /\ running' = t
    /\ req' = [req EXCEPT ![t] = r]
    /\ loc' = [loc EXCEPT ![t] = [NoLoc EXCEPT !.t0 = now, !.c0 = hist.changes]]
    /\ resp' = [resp EXCEPT ![t] = NoResp]
    /\ entry' = [entry EXCEPT ![t] = CacheState]
    /\ Goto(t, IF r.op \in QueryOps THEN "L114" ELSE "L61")
    /\ UNCHANGED <<fs, now, cacheVars, hist>>

\* the response has been sent
Finish(t) ==
    /\ At(t, "ret")
    /\ running' = 0
    /\ Goto(t, "idle")
    /\ req' = [req EXCEPT ![t] = NoReq]
    /\ loc' = [loc EXCEPT ![t] = NoLoc]
    /\ resp' = [resp EXCEPT ![t] = NoResp]
    /\ entry' = [entry EXCEPT ![t] = InitialCache]
    /\ UNCHANGED <<fs, now, cacheVars, hist>>

\* ------------------------------------------------------ ensure_cache_loaded
EnsureLoadsAlways(t) == TRUE

EnsureLoads(t) == ~_cache_loaded

\* lines 113-115
L114(t) ==
    /\ At(t, "L114")
    /\ IF EnsureLoads(t)
       THEN Goto(t, "L61")
       ELSE Goto(t, AfterLoad(req[t].op))
    /\ UNCHANGED <<fs, now, cacheVars, hist, running, req, loc, resp, entry>>

\* ------------------------------------------------------ load_cache_from_csv
\* lines 61-62, marking the cache as loaded once a load has been tried
L61StickyFailure(t) ==
    /\ At(t, "L61")
    /\ loc' = [loc EXCEPT ![t].checked = TRUE]
    /\ IF ~fs["company"].exists
       THEN Raise(t, <<"FileNotFoundError">>) /\ _cache_loaded' = TRUE
       ELSE Goto(t, "L63") /\ UNCHANGED <<resp, _cache_loaded>>
    /\ UNCHANGED <<fs, now, company_cache, recruit_cache, all_companies,
                   all_recruits, _cache_loaded_at, _cache_version,
                   hist, running, req, entry>>

\* lines 61-62
L61(t) ==
    /\ At(t, "L61")
    /\ loc' = [loc EXCEPT ![t].checked = TRUE]
    /\ IF ~fs["company"].exists
       THEN Raise(t, <<"FileNotFoundError">>)
       ELSE Goto(t, "L63") /\ UNCHANGED resp
    /\ UNCHANGED <<fs, now, cacheVars, hist, running, req, entry>>

\* lines 63-64
L63(t) ==
    /\ At(t, "L63")
    /\ IF ~fs["recruit"].exists
       THEN Raise(t, <<"FileNotFoundError">>)
       ELSE Goto(t, "L66") /\ UNCHANGED resp
    /\ UNCHANGED <<fs, now, cacheVars, hist, running, req, loc, entry>>

\* line 67: the cheap way out
SkipsNever(t, version) == FALSE

SkipsIgnoringForce(t, version) == _cache_loaded /\ version = _cache_version

Skips(t, version) ==
    _cache_loaded /\ ~req[t].force /\ version = _cache_version

\* lines 66-68
L66(t) ==
    /\ At(t, "L66")
    /\ LET version == _file_version(fs)
       IN  IF Skips(t, version)
           THEN /\ loc' = [loc EXCEPT ![t].version = version,
                                       ![t].skipped = TRUE]
                /\ LoadReturns(t)
           ELSE /\ loc' = [loc EXCEPT ![t].version = version]
                /\ Goto(t, "L77")
                /\ UNCHANGED resp
    /\ UNCHANGED <<fs, now, cacheVars, hist, running, req, entry>>

\* the token part of a file as it is when the loader opens it
Seen(f) == _file_version(fs)[IF f = "company" THEN 1 ELSE 2]

\* what open() and the reader's iteration do with a file
ReadOutcome(f) ==
    IF ~fs[f].exists THEN "FileNotFoundError"
    ELSE IF ~fs[f].ok THEN "UnicodeDecodeError"
    ELSE "rows"

\* lines 77-90, assigning the global as soon as the companies are parsed
L77Eager(t) ==
    /\ At(t, "L77")
    /\ IF ReadOutcome("company") # "rows"
       THEN Raise(t, <<ReadOutcome("company")>>)
            /\ UNCHANGED <<loc, company_cache>>
       ELSE LET rows == DictReader(CompanyHeader, fs["company"].lines)
                built == ParseCompanies(rows)
            IN  /\ loc' = [loc EXCEPT ![t].rows_c = rows,
                                       ![t].seen_c = Seen("company"),
                                       ![t]._company_cache = built.cache,
                                       ![t]._all_companies = built.all]
                /\ company_cache' = built.cache
                /\ Goto(t, "L93")
                /\ UNCHANGED resp
    /\ UNCHANGED <<fs, now, recruit_cache, all_companies, all_recruits,
                   _cache_loaded, _cache_loaded_at, _cache_version,
                   hist, running, req, entry>>

\* lines 77-90, dropping the loaded flag when the file cannot be read
L77ClearOnError(t) ==
    /\ At(t, "L77")
    /\ IF ReadOutcome("company") # "rows"
       THEN /\ Raise(t, <<ReadOutcome("company")>>)
            /\ _cache_loaded' = FALSE
            /\ UNCHANGED loc
       ELSE LET rows == DictReader(CompanyHeader, fs["company"].lines)
                built == ParseCompanies(rows)
            IN  /\ loc' = [loc EXCEPT ![t].rows_c = rows,
                                       ![t].seen_c = Seen("company"),
                                       ![t]._company_cache = built.cache,
                                       ![t]._all_companies = built.all]
                /\ Goto(t, "L93")
                /\ UNCHANGED <<resp, _cache_loaded>>
    /\ UNCHANGED <<fs, now, company_cache, recruit_cache, all_companies,
                   all_recruits, _cache_loaded_at, _cache_version,
                   hist, running, req, entry>>

\* lines 77-90
L77(t) ==
    /\ At(t, "L77")
    /\ IF ReadOutcome("company") # "rows"
       THEN Raise(t, <<ReadOutcome("company")>>) /\ UNCHANGED loc
       ELSE LET rows == DictReader(CompanyHeader, fs["company"].lines)
                built == ParseCompanies(rows)
            IN  /\ loc' = [loc EXCEPT ![t].rows_c = rows,
                                       ![t].seen_c = Seen("company"),
                                       ![t]._company_cache = built.cache,
                                       ![t]._all_companies = built.all]
                /\ Goto(t, "L93")
                /\ UNCHANGED resp
    /\ UNCHANGED <<fs, now, cacheVars, hist, running, req, entry>>

\* lines 93-101
L93(t) ==
    /\ At(t, "L93")
    /\ IF ReadOutcome("recruit") # "rows"
       THEN Raise(t, <<ReadOutcome("recruit")>>) /\ UNCHANGED loc
       ELSE LET rows == DictReader(RecruitHeader, fs["recruit"].lines)
                built == ParseRecruits(rows)
            IN  /\ loc' = [loc EXCEPT ![t].rows_r = rows,
                                       ![t].seen_r = Seen("recruit"),
                                       ![t]._recruit_cache = built.cache,
                                       ![t]._all_recruits = built.all]
                /\ Goto(t, "L103")
                /\ UNCHANGED resp
    /\ UNCHANGED <<fs, now, cacheVars, hist, running, req, entry>>

\* line 103
L103(t) ==
    /\ At(t, "L103")
    /\ company_cache' = loc[t]._company_cache
    /\ loc' = [loc EXCEPT ![t].id = hist.loads + 1]
    /\ hist' = [hist EXCEPT !.loads = hist.loads + 1,
                            !.company_cache = hist.loads + 1,
                            !.rows_c = loc[t].rows_c,
                            !.seen_c = loc[t].seen_c]
    /\ Goto(t, "L104")
    /\ UNCHANGED <<fs, now, recruit_cache, all_companies, all_recruits,
                   _cache_loaded, _cache_loaded_at, _cache_version,
                   running, req, resp, entry>>

\* line 104
L104(t) ==
    /\ At(t, "L104")
    /\ recruit_cache' = loc[t]._recruit_cache
    /\ hist' = [hist EXCEPT !.recruit_cache = loc[t].id,
                            !.rows_r = loc[t].rows_r,
                            !.seen_r = loc[t].seen_r]
    /\ Goto(t, "L105")
    /\ UNCHANGED <<fs, now, company_cache, all_companies, all_recruits,
                   _cache_loaded, _cache_loaded_at, _cache_version,
                   running, req, loc, resp, entry>>

\* line 105
L105(t) ==
    /\ At(t, "L105")
    /\ all_companies' = loc[t]._all_companies
    /\ hist' = [hist EXCEPT !.all_companies = loc[t].id]
    /\ Goto(t, "L106")
    /\ UNCHANGED <<fs, now, company_cache, recruit_cache, all_recruits,
                   _cache_loaded, _cache_loaded_at, _cache_version,
                   running, req, loc, resp, entry>>

\* line 106 left out: the list of recruits stays as it was
L106KeepOld(t) ==
    /\ At(t, "L106")
    /\ Goto(t, "L108")
    /\ UNCHANGED <<fs, now, company_cache, recruit_cache, all_companies,
                   all_recruits, _cache_loaded, _cache_loaded_at,
                   _cache_version, running, req, loc, resp, entry, hist>>

\* line 106
L106(t) ==
    /\ At(t, "L106")
    /\ all_recruits' = loc[t]._all_recruits
    /\ hist' = [hist EXCEPT !.all_recruits = loc[t].id]
    /\ Goto(t, "L108")
    /\ UNCHANGED <<fs, now, company_cache, recruit_cache, all_companies,
                   _cache_loaded, _cache_loaded_at, _cache_version,
                   running, req, loc, resp, entry>>

\* line 108
L108(t) ==
    /\ At(t, "L108")
    /\ _cache_loaded' = TRUE
    /\ Goto(t, "L109")
    /\ UNCHANGED <<fs, now, company_cache, recruit_cache, all_companies,
                   all_recruits, _cache_loaded_at, _cache_version,
                   running, req, loc, resp, entry, hist>>

\* line 109
L109(t) ==
    /\ At(t, "L109")
    /\ _cache_loaded_at' = now
    /\ Goto(t, "L110")
    /\ UNCHANGED <<fs, now, company_cache, recruit_cache, all_companies,
                   all_recruits, _cache_loaded, _cache_version,
                   running, req, loc, resp, entry, hist>>

\* line 110, and the return
L110(t) ==
    /\ At(t, "L110")
    /\ _cache_version' = loc[t].version
    /\ hist' = [hist EXCEPT !.version = loc[t].id]
    /\ LoadReturns(t)
    /\ UNCHANGED <<fs, now, company_cache, recruit_cache, all_companies,
                   all_recruits, _cache_loaded, _cache_loaded_at,
                   running, req, loc, entry>>

\* ---------------------------------------------------------------- handlers
\* lines 121-124
L121(t) ==
    /\ At(t, "L121")
    /\ LET company == MapGet(company_cache, req[t].key)
       IN  IF company = NoneV
           THEN Respond(t, "404", NoneV)
           ELSE Respond(t, "200", company)
    /\ UNCHANGED <<fs, now, cacheVars, hist, running, req, loc, entry>>

\* lines 130-132
L130(t) ==
    /\ At(t, "L130")
    /\ LET recruitment == MapGet(recruit_cache, req[t].key)
       IN  IF recruitment = NoneV
           THEN Respond(t, "404", NoneV) /\ UNCHANGED loc
           ELSE /\ loc' = [loc EXCEPT ![t].recruitment = recruitment]
                /\ Goto(t, "L134")
                /\ UNCHANGED resp
    /\ UNCHANGED <<fs, now, cacheVars, hist, running, req, entry>>

\* lines 134-137 without the lookup of the company
L134NoJoin(t) ==
    /\ At(t, "L134")
    /\ Respond(t, "200", [recruitment |-> loc[t].recruitment,
                          company |-> NoneV])
    /\ UNCHANGED <<fs, now, cacheVars, hist, running, req, loc, entry>>

\* lines 134-137
L134(t) ==
    /\ At(t, "L134")
    /\ LET corp == DictGet(loc[t].recruitment, K_corporate_number)
           comp == IF Truthy(corp) THEN MapGet(company_cache, corp) ELSE NoneV
       IN  Respond(t, "200", [recruitment |-> loc[t].recruitment,
                              company |-> comp])
    /\ UNCHANGED <<fs, now, cacheVars, hist, running, req, loc, entry>>

\* line 143
L143(t) ==
    /\ At(t, "L143")
    /\ Respond(t, "200", all_recruits)
    /\ UNCHANGED <<fs, now, cacheVars, hist, running, req, loc, entry>>

\* line 149
L149(t) ==
    /\ At(t, "L149")
    /\ Respond(t, "200", all_companies)
    /\ UNCHANGED <<fs, now, cacheVars, hist, running, req, loc, entry>>

\* lines 155-162
L155(t) ==
    /\ At(t, "L155")
    /\ Respond(t, "200",
               [company_count |-> Cardinality(DOMAIN company_cache),
                recruit_count |-> Cardinality(DOMAIN recruit_cache),
                cache_loaded |-> _cache_loaded,
                cache_version |-> _cache_version,
                cache_loaded_at |-> _cache_loaded_at])
    /\ UNCHANGED <<fs, now, cacheVars, hist, running, req, loc, entry>>

\* lines 169-175
L169(t) ==
    /\ At(t, "L169")
    /\ Respond(t, "200",
               [companies |-> Cardinality(DOMAIN company_cache),
                recruitments |-> Cardinality(DOMAIN recruit_cache)])
    /\ UNCHANGED <<fs, now, cacheVars, hist, running, req, loc, entry>>

\* lines 184-189
L184(t) ==
    /\ At(t, "L184")
    /\ Respond(t, "200",
               [companies_loaded |-> Cardinality(DOMAIN company_cache),
                recruitments_loaded |-> Cardinality(DOMAIN recruit_cache),
                cache_version |-> _cache_version])
    /\ UNCHANGED <<fs, now, cacheVars, hist, running, req, loc, entry>>

\* ----------------------------------------------------- the data refresher
\* the external process that owns the files rewrites one of them
WriteFile(f) ==
    /\ hist.changes < MaxChanges
    /\ hist' = [hist EXCEPT !.changes = hist.changes + 1]
    /\ \E dt \in 1..MaxDelay :
          /\ now' = now + dt
          /\ \E w \in Rewritten(fs[f], now + dt) : fs' = [fs EXCEPT ![f] = w]
    /\ UNCHANGED <<cacheVars, taskVars>>

\* or removes it
RemoveFile(f) ==
    /\ hist.changes < MaxChanges
    /\ hist' = [hist EXCEPT !.changes = hist.changes + 1]
    /\ fs[f].exists
    /\ fs' = [fs EXCEPT ![f] = Absent]
    /\ UNCHANGED <<now, cacheVars, taskVars>>

LoadStep(t) ==
    \/ L61(t) \/ L63(t) \/ L66(t) \/ L77(t) \/ L93(t)
    \/ L103(t) \/ L104(t) \/ L105(t) \/ L106(t)
    \/ L108(t) \/ L109(t) \/ L110(t)

HandlerStep(t) ==
    \/ L114(t) \/ L121(t) \/ L130(t) \/ L134(t) \/ L143(t) \/ L149(t)
    \/ L155(t) \/ L169(t) \/ L184(t)

Next ==
    \/ \E t \in Tasks : \E r \in Requests : Start(t, r)
    \/ \E t \in Tasks : LoadStep(t)
    \/ \E t \in Tasks : HandlerStep(t)
    \/ \E t \in Tasks : Finish(t)
    \/ \E f \in Files : WriteFile(f)
    \/ \E f \in Files : RemoveFile(f)

Spec == Init /\ [][Next]_vars

\* ------------------------------------------------------------- vocabulary
LoadPcs == {"L61", "L63", "L66", "L77", "L93", "L103", "L104", "L105",
            "L106", "L108", "L109", "L110"}

\* some but not all of the assignments of lines 103-110 are done
PublishPcs == {"L104", "L105", "L106", "L108", "L109", "L110"}

\* the positions at which a handler reads the cache
ReadPcs == {"L114", "L121", "L130", "L134", "L143", "L149", "L155",
            "L169", "L184"}

Quiescent == \A t \in Tasks : pc[t] \notin PublishPcs

\* handler t has come out of a load that assigned the globals
JustLoaded(t) == loc[t].id > 0 /\ pc[t] \notin LoadPcs

Failed(t) == pc[t] = "ret" /\ resp[t].status \in {"500", "raise"}

\* no file changed since the handler started
Undisturbed(t) == loc[t].c0 = hist.changes

SourceRows(f) == DictReader(Header(f), fs[f].lines)

\* the five published structures were assigned by one and the same load
SingleGeneration ==
    /\ hist.company_cache = hist.version
    /\ hist.recruit_cache = hist.version
    /\ hist.all_companies = hist.version
    /\ hist.all_recruits = hist.version
    /\ _cache_loaded <=> hist.version > 0

\* and hold everything that load parsed
CompleteSnapshot ==
    /\ company_cache = ParseCompanies(hist.rows_c).cache
    /\ all_companies = ParseCompanies(hist.rows_c).all
    /\ recruit_cache = ParseRecruits(hist.rows_r).cache
    /\ all_recruits = ParseRecruits(hist.rows_r).all

\* the rows the published snapshot was parsed from, and their keys
RecruitId(i) == DictGet(_normalize_row(hist.rows_r[i]), K_media_internal_id)

CorporateNumber(i) ==
    DictGet(_normalize_row(hist.rows_c[i]), K_corporate_number)

InRecruitList(d) == \E j \in 1..Len(all_recruits) : all_recruits[j] = d

LastRecruitWithId(i) ==
    \A j \in (i + 1)..Len(hist.rows_r) : RecruitId(j) # RecruitId(i)

LastCompanyWithNumber(i) ==
    \A j \in (i + 1)..Len(hist.rows_c) : CorporateNumber(j) # CorporateNumber(i)

\* rec has the normalized fields of row, quality and updated_at left out
FieldsMatch(rec, row) ==
    LET n == _normalize_row(row)
    IN  /\ DictKeys(rec) = DictKeys(n) \ {K_quality, K_updated_at}
        /\ \A k \in DictKeys(rec) : DictGet(rec, k) = DictGet(n, k)

\* ------------------------------------------------------------------ claims

\* C1: a load that fails (a source file missing, or an error raised while
\* parsing) leaves both indexes, both lists, the loaded flag, the load
\* timestamp and the version token as they were when it was called, and
\* every key that was queryable then still maps to the same record.
C1_FailedReloadChangesNothing ==
    \A t \in Tasks :
        Failed(t) =>
            /\ CacheState = entry[t]
            /\ \A k \in DOMAIN entry[t].company_cache :
                   MapGet(company_cache, k) = entry[t].company_cache[k]
            /\ \A k \in DOMAIN entry[t].recruit_cache :
                   MapGet(recruit_cache, k) = entry[t].recruit_cache[k]

\* a forced reload of a loaded, non-empty snapshot fails on undecodable bytes
C1_Witness ==
    \E t \in Tasks :
        /\ Failed(t)
        /\ req[t].op = "reload_cache"
        /\ resp[t].body = <<"UnicodeDecodeError">>
        /\ entry[t].loaded
        /\ DOMAIN entry[t].company_cache # {}
        /\ DOMAIN entry[t].recruit_cache # {}

\* C2: every query handler checks staleness: when the cache is unloaded, or
\* loaded under a version token that differs from the token of the files as
\* they are now, ensure_cache_loaded goes on to a full reload before the
\* query is answered.
C2_EveryQueryChecksStaleness ==
    [][\A t \in Tasks :
          (/\ pc[t] = "L114"
           /\ pc'[t] # "L114"
           /\ (~_cache_loaded \/ _file_version(fs) # _cache_version))
          => pc'[t] = "L61"]_vars

\* C3: load_cache_from_csv(force=False), called with a snapshot loaded and
\* computing the token the cache already has, changes neither index, neither
\* list, nor the load timestamp, nor the version token, and parses nothing.
C3_UnforcedSameTokenIsNoOp ==
    \A t \in Tasks :
        (/\ pc[t] = "ret"
         /\ req[t].op = "load_cache_from_csv"
         /\ ~req[t].force
         /\ resp[t].status = "return"
         /\ entry[t].loaded
         /\ loc[t].version = entry[t].version)
        => /\ CacheState = entry[t]
           /\ loc[t].skipped
           /\ loc[t].id = 0

\* the no-op happens after a file was rewritten within the same second
C3_Witness ==
    \E t \in Tasks :
        /\ pc[t] = "ret"
        /\ req[t].op = "load_cache_from_csv"
        /\ resp[t].status = "return"
        /\ entry[t].loaded
        /\ loc[t].version = entry[t].version
        /\ now > _cache_loaded_at
        /\ \E f \in Files : fs[f].exists /\ fs[f].mtime = now

\* C4: a forced reload that returns has re-ingested whatever the token: the
\* indexes and lists are what the two loops make of the rows this reload
\* read, the loaded flag is true, the load timestamp is of this reload and
\* the version token is the one this reload computed; with both files
\* present, decodable and untouched during the reload it does return, and
\* the snapshot is that of the files as they are.
C4_ForcedReloadRebuilds ==
    \A t \in Tasks :
        /\ (/\ req[t].op = "reload_cache"
            /\ \/ pc[t] = "L184"
               \/ pc[t] = "ret" /\ resp[t].status = "200")
           => /\ ~loc[t].skipped
              /\ loc[t].id > 0
              /\ hist.version = loc[t].id
              /\ SingleGeneration
              /\ company_cache = ParseCompanies(loc[t].rows_c).cache
              /\ all_companies = ParseCompanies(loc[t].rows_c).all
              /\ recruit_cache = ParseRecruits(loc[t].rows_r).cache
              /\ all_recruits = ParseRecruits(loc[t].rows_r).all
              /\ _cache_loaded
              /\ _cache_version = loc[t].version
              /\ loc[t].t0 <= _cache_loaded_at
              /\ _cache_loaded_at <= now
              /\ Undisturbed(t) =>
                    /\ loc[t].rows_c = SourceRows("company")
                    /\ loc[t].rows_r = SourceRows("recruit")
                    /\ _cache_version = _file_version(fs)
                    /\ _cache_loaded_at = now
        /\ (/\ req[t].op = "reload_cache"
            /\ Failed(t)
            /\ Undisturbed(t))
           => \E f \in Files : ~fs[f].exists \/ ~fs[f].ok

\* a forced reload rebuilt a loaded snapshot although the token was the
\* same, and the load timestamp moved
C4_Witness ==
    \E t \in Tasks :
        /\ pc[t] = "ret"
        /\ req[t].op = "reload_cache"
        /\ resp[t].status = "200"
        /\ entry[t].loaded
        /\ entry[t].version = _cache_version
        /\ entry[t].loaded_at < _cache_loaded_at
        /\ entry[t].all_companies # all_companies

\* C5 as stated: after a successful load, a row of the recruit source is in
\* the list served by get_all_recruitments and is the record that
\* get_recruitment finds under its media_internal_id, if and only if that id
\* is non-empty after normalization.
C5_EveryKeyedRowIsListedAndReturned ==
    \A t \in Tasks :
        JustLoaded(t) =>
            \A i \in 1..Len(loc[t].rows_r) :
                LET d == _normalize_row(loc[t].rows_r[i])
                    id == DictGet(d, K_media_internal_id)
                IN  (InRecruitList(d) /\ MapGet(recruit_cache, id) = d)
                    <=> Truthy(id)

\* C5 amended: after a successful load, a row of the recruit source is in
\* the list if and only if its media_internal_id is non-empty after
\* normalization; get_recruitment on a non-empty id finds the last row of
\* the file that has that id; a row without id is in neither the list nor
\* the index.
C5_KeyedRowsListedLastOneReturned ==
    /\ \A t \in Tasks :
          (JustLoaded(t) /\ loc[t].rows_r = hist.rows_r) =>
          \A i \in 1..Len(hist.rows_r) :
              LET d == _normalize_row(hist.rows_r[i])
                  id == RecruitId(i)
              IN  /\ InRecruitList(d) <=> Truthy(id)
                  /\ (Truthy(id) /\ LastRecruitWithId(i)) =>
                        (id \in DOMAIN recruit_cache /\ recruit_cache[id] = d)
                  /\ ~Truthy(id) =>
                        \A k \in DOMAIN recruit_cache : recruit_cache[k] # d
    /\ \A t \in Tasks :
          (pc[t] = "ret" /\ resp[t].status = "200") =>
              /\ req[t].op = "get_all_recruitments" =>
                    /\ resp[t].body = all_recruits
                    /\ \A j \in 1..Len(resp[t].body) :
                          Truthy(DictGet(resp[t].body[j], K_media_internal_id))
              /\ req[t].op = "get_recruitment" =>
                    \E i \in 1..Len(hist.rows_r) :
                        /\ RecruitId(i) = req[t].key
                        /\ LastRecruitWithId(i)
                        /\ resp[t].body.recruitment =
                              _normalize_row(hist.rows_r[i])

\* a snapshot loaded from a file that has a row with an id and a row without
C5_Witness ==
    /\ Quiescent
    /\ _cache_loaded
    /\ \E i, j \in 1..Len(hist.rows_r) :
          /\ Truthy(RecruitId(i))
          /\ ~Truthy(RecruitId(j))
    /\ \E t \in Tasks :
          /\ pc[t] = "ret"
          /\ req[t].op = "get_all_recruitments"
          /\ resp[t].status = "200"

\* C6 as stated: after a successful load, for every row of the company
\* source whose corporate_number is non-empty after normalization,
\* get_company on that number finds a record with that row's normalized
\* fields, quality and updated_at left out.
C6_EveryKeyedCompanyRowIsReturned ==
    (\E t \in Tasks : JustLoaded(t) /\ loc[t].rows_c = hist.rows_c) =>
        \A i \in 1..Len(hist.rows_c) :
            Truthy(CorporateNumber(i)) =>
                /\ CorporateNumber(i) \in DOMAIN company_cache
                /\ FieldsMatch(company_cache[CorporateNumber(i)],
                               hist.rows_c[i])

\* C6 amended: after a successful load, for every row of the company source
\* whose corporate_number is non-empty after normalization and is not
\* repeated by a later row, get_company on that number finds a record with
\* that row's normalized fields, quality and updated_at left out.
C6_LastKeyedCompanyRowIsReturned ==
    /\ (\E t \in Tasks : JustLoaded(t) /\ loc[t].rows_c = hist.rows_c) =>
          \A i \in 1..Len(hist.rows_c) :
              (Truthy(CorporateNumber(i)) /\ LastCompanyWithNumber(i)) =>
                  /\ CorporateNumber(i) \in DOMAIN company_cache
                  /\ FieldsMatch(company_cache[CorporateNumber(i)],
                                 hist.rows_c[i])
    /\ \A t \in Tasks :
          (pc[t] = "ret" /\ req[t].op = "get_company"
                        /\ resp[t].status = "200") =>
              \E i \in 1..Len(hist.rows_c) :
                  /\ CorporateNumber(i) = req[t].key
                  /\ LastCompanyWithNumber(i)
                  /\ FieldsMatch(resp[t].body, hist.rows_c[i])

\* get_company answers with a row that had a quality in the file
C6_Witness ==
    \E t \in Tasks :
        /\ pc[t] = "ret"
        /\ req[t].op = "get_company"
        /\ resp[t].status = "200"
        /\ \E i \in 1..Len(hist.rows_c) :
              /\ CorporateNumber(i) = req[t].key
              /\ LastCompanyWithNumber(i)
              /\ DictGet(_normalize_row(hist.rows_c[i]), K_quality) # NoneV

\* C7: get_recruitment answers 200 with a non-null recruitment exactly when
\* the key is in the recruit index, and 404 when it is not; the company in
\* the answer is non-null if and only if the recruitment's corporate_number
\* is non-null and a key of the company index, and is then the record
\* indexed under it.
C7_RecruitmentJoin ==
    \A t \in Tasks :
        (/\ pc[t] = "ret"
         /\ req[t].op = "get_recruitment"
         /\ resp[t].status # "500")
        => IF req[t].key \in DOMAIN recruit_cache
           THEN /\ resp[t].status = "200"
                /\ resp[t].body.recruitment # NoneV
                /\ resp[t].body.recruitment = recruit_cache[req[t].key]
                /\ LET corp == DictGet(resp[t].body.recruitment,
                                       K_corporate_number)
                   IN  /\ resp[t].body.company # NoneV
                          <=> (corp # NoneV /\ corp \in DOMAIN company_cache)
                       /\ resp[t].body.company # NoneV
                          => resp[t].body.company = company_cache[corp]
           ELSE resp[t].status = "404"

\* an answer that carries the company the recruitment refers to
C7_Witness ==
    \E t \in Tasks :
        /\ pc[t] = "ret"
        /\ req[t].op = "get_recruitment"
        /\ resp[t].status = "200"
        /\ resp[t].body.company # NoneV

\* C8: whenever a handler is at a line that reads the cache, the two
\* indexes, the two lists and the version token were assigned by one and the
\* same load and hold all that this load parsed, and the recruitment a
\* handler has looked up is still the one of the snapshot it joins against.
C8_ReadersSeeOneSnapshot ==
    \A t \in Tasks :
        pc[t] \in ReadPcs =>
            /\ SingleGeneration
            /\ CompleteSnapshot
            /\ pc[t] = "L134" =>
                  loc[t].recruitment = MapGet(recruit_cache, req[t].key)

\* a reload is half way through replacing a loaded snapshot: the globals
\* belong to two loads
C8_Witness ==
    \E t \in Tasks :
        /\ pc[t] \in PublishPcs
        /\ entry[t].loaded
        /\ ~SingleGeneration
        /\ company_cache # entry[t].company_cache
        /\ recruit_cache = entry[t].recruit_cache

\* C9: a query handler that starts with the loaded flag true never enters
\* load_cache_from_csv: it changes no cache state, looks at no file and does
\* not fail, whatever has become of the files; one that starts with the
\* flag false goes through a full, unforced load.
C9_EnsureLoadedIsNoOpOnceLoaded ==
    \A t \in Tasks :
        req[t].op \in QueryOps =>
            /\ entry[t].loaded =>
                  /\ pc[t] \notin LoadPcs
                  /\ ~loc[t].checked
                  /\ CacheState = entry[t]
                  /\ pc[t] = "ret" => resp[t].status \in {"200", "404"}
            /\ (~entry[t].loaded /\ pc[t] \notin {"L114", "L61"}) =>
                  /\ loc[t].checked
                  /\ ~req[t].force
                  /\ ~loc[t].skipped
                  /\ (pc[t] \notin LoadPcs /\ ~Failed(t)) =>
                        (_cache_loaded /\ hist.version = loc[t].id
                                       /\ loc[t].id > 0)

\* a query is answered from the snapshot after a source file has gone
C9_Witness ==
    \E t \in Tasks :
        /\ pc[t] = "ret"
        /\ req[t].op \in QueryOps
        /\ resp[t].status = "200"
        /\ entry[t].loaded
        /\ \E f \in Files : ~fs[f].exists

\* C10: normalizing a normalized record gives the same record, for every
\* row the loader has just normalized, with and without the two dropped
\* columns.
C10_NormalizeIdempotent ==
    \A t \in Tasks :
        /\ pc[t] = "L93" =>
              /\ \A i \in 1..Len(loc[t].rows_c) :
                    LET n == _normalize_row(loc[t].rows_c[i])
                    IN  _normalize_row(n) = n
              /\ \A i \in 1..Len(loc[t]._all_companies) :
                    _normalize_row(loc[t]._all_companies[i])
                        = loc[t]._all_companies[i]
        /\ pc[t] = "L103" =>
              \A i \in 1..Len(loc[t].rows_r) :
                  LET n == _normalize_row(loc[t].rows_r[i])
                  IN  _normalize_row(n) = n

\* the loader has read a row that normalization changes: padded key and
\* value, a blank value, a surplus cell
C10_Witness ==
    \E t \in Tasks :
      /\ pc[t] = "L93"
      /\ \E i \in 1..Len(loc[t].rows_c) :
          LET row == loc[t].rows_c[i]
              n == _normalize_row(row)
          IN  /\ DictHas(row, NoneV)
              /\ ~DictHas(n, NoneV)
              /\ DictKeys(n) # DictKeys(row)
              /\ \E k \in DictKeys(n) : DictGet(n, k) = NoneV

\* every record the cache holds, in either index or either list
CachedRecords ==
    {company_cache[k] : k \in DOMAIN company_cache}
    \cup {recruit_cache[k] : k \in DOMAIN recruit_cache}
    \cup {all_companies[i] : i \in 1..Len(all_companies)}
    \cup {all_recruits[i] : i \in 1..Len(all_recruits)}

\* a field as _normalize_row leaves it
NormalizedField(k, v) ==
    /\ k # NoneV
    /\ Strip(k) = k
    /\ v # EmptyStr
    /\ v # RestList
    /\ v # NoneV => Strip(v) = v

\* C11: in every reachable state, every record held in either index or
\* either list is normalized: no field name and no field value has leading
\* or trailing whitespace, and no field value is the empty string (a value
\* that is empty after trimming is stored as None).
C11_CachedRecordsAreNormalized ==
    \A d \in CachedRecords :
        \A p \in 1..Len(d) : NormalizedField(d[p][1], d[p][2])

\* the list holds a record whose row had a padded field name over a blank
\* cell, stored as None under the trimmed name
C11_Witness ==
    /\ Quiescent
    /\ _cache_loaded
    /\ Len(all_companies) = Len(hist.rows_c)
    /\ \E i \in 1..Len(hist.rows_c) :
          \E p \in 1..Len(hist.rows_c[i]) :
              LET k == hist.rows_c[i][p][1]
                  v == hist.rows_c[i][p][2]
              IN  /\ k # NoneV
                  /\ Strip(k) # k
                  /\ v # NoneV
                  /\ Strip(v) = EmptyStr
                  /\ DictHas(all_companies[i], Strip(k))
                  /\ DictGet(all_companies[i], Strip(k)) = NoneV

\* C12: in every reachable state, every record in the company index has a
\* corporate_number that is neither None nor empty and is the key it is
\* stored under, and carries neither a quality nor an updated_at field.
C12_CompanyIndexKeyedAndTrimmed ==
    \A k \in DOMAIN company_cache :
        LET d == company_cache[k]
        IN  /\ Truthy(k)
            /\ DictHas(d, K_corporate_number)
            /\ DictGet(d, K_corporate_number) = k
            /\ ~DictHas(d, K_quality)
            /\ ~DictHas(d, K_updated_at)

\* the index holds a row that had a quality and an updated_at in the file,
\* next to a row without corporate_number that is in the list only
C12_Witness ==
    /\ Quiescent
    /\ _cache_loaded
    /\ \E i, j \in 1..Len(hist.rows_c) :
          /\ Truthy(CorporateNumber(i))
          /\ CorporateNumber(i) \in DOMAIN company_cache
          /\ DictGet(_normalize_row(hist.rows_c[i]), K_quality) # NoneV
          /\ DictGet(_normalize_row(hist.rows_c[i]), K_updated_at) # NoneV
          /\ ~Truthy(CorporateNumber(j))

\* C13: the loaded flag is one-way: no step of a query, of an unforced, a
\* forced or a failing reload, or of the data refresher takes it from true
\* to false; a loaded index or list is only ever replaced by what a load has
\* built in full from the rows it read, and whenever no handler is running
\* the two indexes, the two lists and the token of the loaded cache are those
\* of a single load.
C13_LoadedFlagIsOneWay ==
    [][/\ _cache_loaded => _cache_loaded'
       /\ (_cache_loaded /\ company_cache' # company_cache) =>
             \E t \in Tasks :
                 /\ pc[t] = "L103"
                 /\ company_cache' = ParseCompanies(loc[t].rows_c).cache
       /\ (_cache_loaded /\ recruit_cache' # recruit_cache) =>
             \E t \in Tasks :
                 /\ pc[t] = "L104"
                 /\ recruit_cache' = ParseRecruits(loc[t].rows_r).cache
       /\ (_cache_loaded /\ all_companies' # all_companies) =>
             \E t \in Tasks :
                 /\ pc[t] = "L105"
                 /\ all_companies' = ParseCompanies(loc[t].rows_c).all
       /\ (_cache_loaded /\ all_recruits' # all_recruits) =>
             \E t \in Tasks :
                 /\ pc[t] = "L106"
                 /\ all_recruits' = ParseRecruits(loc[t].rows_r).all
       /\ (_cache_loaded /\ running = 0) => SingleGeneration
      ]_vars

\* the flag is still true after a source file went and a reload of the
\* loaded snapshot failed on it
C13_Witness ==
    \E t \in Tasks :
        /\ Failed(t)
        /\ resp[t].body = <<"FileNotFoundError">>
        /\ entry[t].loaded
        /\ _cache_loaded
        /\ ~Undisturbed(t) \/ hist.changes > 0

\* C14: after a successful load the company list has exactly one record per
\* row of the company source, in file order, the rows with an empty or
\* absent corporate_number included; those rows are in the list and not in
\* the index; root answers with that list, and the company count of
\* check_data, the size of the index, is never more than its length.
C14_CompanyListKeepsEveryRow ==
    /\ (\E t \in Tasks : JustLoaded(t) /\ loc[t].rows_c = hist.rows_c) =>
          /\ Len(all_companies) = Len(hist.rows_c)
          /\ \A i \in 1..Len(hist.rows_c) :
                /\ FieldsMatch(all_companies[i], hist.rows_c[i])
                /\ ~Truthy(CorporateNumber(i)) =>
                      \A k \in DOMAIN company_cache :
                          company_cache[k] # all_companies[i]
          /\ Cardinality(DOMAIN company_cache) <= Len(all_companies)
    /\ \A t \in Tasks :
          (pc[t] = "ret" /\ resp[t].status = "200") =>
              /\ req[t].op = "root" =>
                    /\ resp[t].body = all_companies
                    /\ Len(resp[t].body) = Len(hist.rows_c)
              /\ req[t].op = "check_data" =>
                    /\ resp[t].body.company_count
                          = Cardinality(DOMAIN company_cache)
                    /\ resp[t].body.company_count <= Len(all_companies)

\* root answers with a list that has a record without corporate_number and
\* is longer than the index
C14_Witness ==
    \E t \in Tasks :
        /\ pc[t] = "ret"
        /\ req[t].op = "root"
        /\ resp[t].status = "200"
        /\ \E i \in 1..Len(resp[t].body) :
              ~Truthy(DictGet(resp[t].body[i], K_corporate_number))
        /\ Cardinality(DOMAIN company_cache) > 0
        /\ Cardinality(DOMAIN company_cache) < Len(resp[t].body)

\* the token of the files as they were when the published indexes were
\* parsed from them
ParsedVersion == <<hist.seen_c, hist.seen_r>>

\* C15: two reloads in flight together are correctness-neutral: once both
\* have finished, whatever the order of their steps and of the changes to
\* the source files, both indexes, both lists and the version token are of
\* one and the same load, a reload reports the token the cache has, and that
\* token is the token of the source files that the published indexes were
\* parsed from.
C15_ConcurrentReloadsConverge ==
    (hist.loads >= 2 /\ \A t \in Tasks : pc[t] \notin LoadPcs) =>
        /\ SingleGeneration
        /\ CompleteSnapshot
        /\ \A t \in Tasks :
              (pc[t] = "ret" /\ req[t].op = "reload_cache"
                             /\ resp[t].status = "200") =>
                  resp[t].body.cache_version = _cache_version
        /\ _cache_version = ParsedVersion

\* the cache holds nothing
CacheEmpty ==
    /\ DOMAIN company_cache = {}
    /\ DOMAIN recruit_cache = {}
    /\ all_companies = <<>>
    /\ all_recruits = <<>>
    /\ _cache_version = InitialCache.version

\* both files are there and can be read
SourcesReadable == \A f \in Files : ReadOutcome(f) = "rows"

\* a query that found the cache unloaded: its failure leaves the cache as
\* the module created it, it does try the load, and it succeeds when both
\* files were readable all the while
UnloadedQueryRetries(t) ==
    (req[t].op \in QueryOps /\ ~entry[t].loaded) =>
        /\ Failed(t) => CacheState = InitialCache
        /\ pc[t] \notin {"L114", "L61"} => loc[t].checked
        /\ (pc[t] = "ret" /\ Undisturbed(t) /\ SourcesReadable) =>
              /\ resp[t].status \in {"200", "404"}
              /\ _cache_loaded
              /\ loc[t].id > 0

\* C16 as stated: a first load that fails is not sticky (the cache stays in
\* its initial state and every later query tries the load again, succeeding
\* once both files are present and parseable), and in every reachable state
\* a false loaded flag implies empty indexes, empty lists and an empty
\* version token.
C16_FailedFirstLoadNotStickyEveryState ==
    /\ \A t \in Tasks : UnloadedQueryRetries(t)
    /\ ~_cache_loaded => CacheEmpty

\* C16 amended: a first load that fails is not sticky, as above, and in
\* every state in which no load is in the middle of the assignments of
\* lines 103-110 a false loaded flag implies empty indexes, empty lists and
\* an empty version token.
C16_FailedFirstLoadNotSticky ==
    /\ \A t \in Tasks : UnloadedQueryRetries(t)
    /\ (Quiescent /\ ~_cache_loaded) => CacheEmpty

\* the first load, triggered by a query, failed on a file that went or
\* could not be decoded, and left the cache as the module created it
C16_Witness ==
    \E t \in Tasks :
        /\ Failed(t)
        /\ req[t].op \in QueryOps
        /\ ~entry[t].loaded
        /\ loc[t].checked
        /\ ~_cache_loaded
        /\ CacheEmpty
        /\ resp[t].body # <<"FileNotFoundError">> \/ ~Undisturbed(t)

InCompanyList(d) == \E j \in 1..Len(all_companies) : all_companies[j] = d

\* C17: in every state between operations the indexes and lists agree:
\* every record of the recruit index is in the recruit list and is stored
\* under its own media_internal_id; every element of the recruit list has a
\* non-empty media_internal_id that is a key of the recruit index; every
\* record of the company index is in the company list; and each index has
\* at most as many entries as its list.
C17_IndexesAgreeWithLists ==
    Quiescent =>
        /\ \A k \in DOMAIN recruit_cache :
              /\ InRecruitList(recruit_cache[k])
              /\ DictGet(recruit_cache[k], K_media_internal_id) = k
        /\ \A j \in 1..Len(all_recruits) :
              /\ Truthy(DictGet(all_recruits[j], K_media_internal_id))
              /\ DictGet(all_recruits[j], K_media_internal_id)
                    \in DOMAIN recruit_cache
        /\ \A k \in DOMAIN company_cache : InCompanyList(company_cache[k])
        /\ Cardinality(DOMAIN recruit_cache) <= Len(all_recruits)
        /\ Cardinality(DOMAIN company_cache) <= Len(all_companies)

\* between operations, a loaded cache whose two lists are both longer than
\* their indexes
C17_Witness ==
    /\ running = 0
    /\ _cache_loaded
    /\ 0 < Cardinality(DOMAIN recruit_cache)
    /\ Cardinality(DOMAIN recruit_cache) < Len(all_recruits)
    /\ 0 < Cardinality(DOMAIN company_cache)
    /\ Cardinality(DOMAIN company_cache) < Len(all_companies)

\* the rows of the published snapshot that have a key
KeyedCompanyRows == {i \in 1..Len(hist.rows_c) : Truthy(CorporateNumber(i))}

KeyedRecruitRows == {i \in 1..Len(hist.rows_r) : Truthy(RecruitId(i))}

\* the normalized recruit rows that have an id, in file order
RECURSIVE KeyedRecruits(_)
KeyedRecruits(i) ==
    IF i = 0 THEN <<>>
    ELSE IF Truthy(RecruitId(i))
         THEN Append(KeyedRecruits(i - 1), _normalize_row(hist.rows_r[i]))
         ELSE KeyedRecruits(i - 1)

\* C18: when several rows of a source have the same key after normalization
\* (corporate_number for companies, media_internal_id for recruits), the
\* index holds under that key the last of them in file order, which is what
\* get_company and get_recruitment answer with, while the list retains every
\* one of them; the index has fewer entries than there are keyed rows
\* exactly when some key is repeated.
C18_LastDuplicateWins ==
    /\ (\E t \in Tasks : JustLoaded(t) /\ loc[t].rows_c = hist.rows_c
                                       /\ loc[t].rows_r = hist.rows_r) =>
          /\ \A i \in KeyedCompanyRows :
                /\ all_companies[i] = CompanyRecord(hist.rows_c[i])
                /\ LastCompanyWithNumber(i) =>
                      MapGet(company_cache, CorporateNumber(i))
                          = all_companies[i]
          /\ all_recruits = KeyedRecruits(Len(hist.rows_r))
          /\ \A i \in KeyedRecruitRows :
                LastRecruitWithId(i) =>
                    MapGet(recruit_cache, RecruitId(i))
                        = _normalize_row(hist.rows_r[i])
          /\ Cardinality(DOMAIN company_cache) < Cardinality(KeyedCompanyRows)
                <=> \E i \in KeyedCompanyRows : ~LastCompanyWithNumber(i)
          /\ Cardinality(DOMAIN recruit_cache) < Cardinality(KeyedRecruitRows)
                <=> \E i \in KeyedRecruitRows : ~LastRecruitWithId(i)
    /\ \A t \in Tasks :
          (pc[t] = "ret" /\ resp[t].status = "200") =>
              /\ req[t].op = "get_company" =>
                    \E i \in KeyedCompanyRows :
                        /\ CorporateNumber(i) = req[t].key
                        /\ LastCompanyWithNumber(i)
                        /\ resp[t].body = CompanyRecord(hist.rows_c[i])
              /\ req[t].op = "get_recruitment" =>
                    \E i \in KeyedRecruitRows :
                        /\ RecruitId(i) = req[t].key
                        /\ LastRecruitWithId(i)
                        /\ resp[t].body.recruitment
                              = _normalize_row(hist.rows_r[i])

\* get_company answers with the second of two rows that have the same
\* corporate_number and differ in another field, and both are in the list
C18_Witness ==
    \E t \in Tasks :
        /\ pc[t] = "ret"
        /\ req[t].op = "get_company"
        /\ resp[t].status = "200"
        /\ Len(all_companies) = Len(hist.rows_c)
        /\ \E i, j \in KeyedCompanyRows :
              /\ i < j
              /\ CorporateNumber(i) = req[t].key
              /\ CorporateNumber(j) = req[t].key
              /\ all_companies[i] # all_companies[j]
              /\ resp[t].body = all_companies[j]

====
